---- MODULE Spec2Model ----
(***************************************************************************)
(* Model of Survey_to_RAS_Geom.py: the rewriter that replaces the          *)
(* station/elevation tables of a HEC-RAS geometry file by linear           *)
(* referenced survey points.  Text is modelled as TLA+ strings, a Python   *)
(* list as a sequence, the DataFrame as a sequence of row records.         *)
(* MEAS, ELEV and RiverStation are held in thousandths (1.0 is 1000).      *)
(***************************************************************************)
EXTENDS Integers, Sequences, FiniteSets, TLC

(***************************************************************************)
(* Python string primitives                                                *)
(***************************************************************************)

\* s[a:b] for 0 <= a, 0 <= b: the slice clamps, it never raises
Slice(s, a, b) ==
    LET hi == IF b > Len(s) THEN Len(s) ELSE b
    IN  IF a >= hi THEN "" ELSE SubSeq(s, a + 1, hi)

\* s[-k:] : the last k characters, the whole of s when it is shorter
Tail_k(s, k) == IF Len(s) <= k THEN s ELSE SubSeq(s, Len(s) - k + 1, Len(s))

\* s[:-1] : all but the last character
DropLast(s) == IF Len(s) = 0 THEN "" ELSE SubSeq(s, 1, Len(s) - 1)

\* p in s : substring containment
Contains(s, p) ==
    \/ Len(p) = 0
    \/ /\ Len(p) <= Len(s)
       /\ \E i \in 1..(Len(s) - Len(p) + 1) : SubSeq(s, i, i + Len(p) - 1) = p

RECURSIVE Spaces(_)
Spaces(n) == IF n <= 0 THEN "" ELSE " " \o Spaces(n - 1)

\* '{:<w}'.format(s) : left-justify, pad to at least w, never truncate
LJust(s, w) == s \o Spaces(w - Len(s))

\* '{:>w}' as applied by a numeric format: right-justify, never truncate
RJust(s, w) == Spaces(w - Len(s)) \o s

Digits == "0123456789"

DigitChar(d) == SubSeq(Digits, d + 1, d + 1)

\* str(n) for a natural number n
RECURSIVE NatStr(_)
NatStr(n) == IF n < 10 THEN DigitChar(n) ELSE NatStr(n \div 10) \o DigitChar(n % 10)

\* str(n) for an integer n
IntStr(n) == IF n < 0 THEN "-" \o NatStr(0 - n) ELSE NatStr(n)

Abs(v) == IF v < 0 THEN 0 - v ELSE v

\* the three decimals of a value held in thousandths
Frac3(v) ==
    LET f == Abs(v) % 1000
    IN  DigitChar(f \div 100) \o DigitChar((f \div 10) % 10) \o DigitChar(f % 10)

\* '{:8.3f}'.format(x), x held in thousandths: sign, integer part, point, three
\* decimals, right-justified to a MINIMUM width of 8
Fmt8_3f(v) ==
    RJust((IF v < 0 THEN "-" ELSE "") \o NatStr(Abs(v) \div 1000) \o "." \o Frac3(v), 8)

\* the decimals of str(float): trailing zeros dropped, at least one digit kept
FracShort(v) ==
    LET f == Abs(v) % 1000
    IN  IF f % 100 = 0 THEN DigitChar(f \div 100)
        ELSE IF f % 10 = 0 THEN DigitChar(f \div 100) \o DigitChar((f \div 10) % 10)
        ELSE Frac3(v)

\* str(x) of a float x held in thousandths: 12345000 is "12345.0", 200500 is "200.5"
FloatStr(v) ==
    (IF v < 0 THEN "-" ELSE "") \o NatStr(Abs(v) \div 1000) \o "." \o FracShort(v)

\* the characters of the model in code-point order, for Python's string comparison
Alphabet == "\n #,./0123456789=ABCDEFGHIJKLMNOPQRSTUVWXYZ_abcdefghijklmnopqrstuvwxyz"

Ord(c) == CHOOSE i \in 1..Len(Alphabet) : SubSeq(Alphabet, i, i) = c

\* a < b on Python strings: lexicographic by code point, a proper prefix is smaller
RECURSIVE StrLT(_, _)
StrLT(a, b) ==
    IF Len(b) = 0 THEN FALSE
    ELSE IF Len(a) = 0 THEN TRUE
    ELSE IF Head(a) = Head(b) THEN StrLT(Tail(a), Tail(b))
    ELSE Ord(Head(a)) < Ord(Head(b))

(***************************************************************************)
(* The survey table: df, df_sort, df_grouped                               *)
(***************************************************************************)

\* one row of the csv, restricted to col_list
SurveyRow(rv, rc, st, m, e) ==
    [River |-> rv, Reach |-> rc, RiverStation |-> st, MEAS |-> m, ELEV |-> e]

\* the (River, Reach, RiverStation) key of a row
KeyOf(r) == <<r.River, r.Reach, r.RiverStation>>

\* ascending order of the key columns, as sort_values and groupby order them
KeyLT(a, b) ==
    \/ StrLT(a[1], b[1])
    \/ a[1] = b[1] /\ StrLT(a[2], b[2])
    \/ a[1] = b[1] /\ a[2] = b[2] /\ a[3] < b[3]

\* ascending order on ['River','Reach','RiverStation','MEAS']
RowLT(r, q) ==
    \/ KeyLT(KeyOf(r), KeyOf(q))
    \/ KeyOf(r) = KeyOf(q) /\ r.MEAS < q.MEAS

\* insert r behind every row that is not greater: rows that compare equal keep
\* the order they had in the csv
RECURSIVE InsertRow(_, _)
InsertRow(sorted, r) ==
    IF sorted = <<>> THEN <<r>>
    ELSE IF RowLT(r, Head(sorted)) THEN <<r>> \o sorted
    ELSE <<Head(sorted)>> \o InsertRow(Tail(sorted), r)

\* df.sort_values(['River','Reach','RiverStation','MEAS'])
RECURSIVE SortValues(_)
SortValues(d) ==
    IF d = <<>> THEN <<>>
    ELSE InsertRow(SortValues(SubSeq(d, 1, Len(d) - 1)), d[Len(d)])

\* the number of rows of d under key k
GroupSize(d, k) == Len(SelectSeq(d, LAMBDA r : KeyOf(r) = k))

\* the keys of set K in ascending order, each with its row count
RECURSIVE GroupRows(_, _)
GroupRows(d, K) ==
    IF K = {} THEN <<>>
    ELSE LET k == CHOOSE x \in K : \A y \in K \ {x} : KeyLT(x, y)
         IN  <<[River |-> k[1], Reach |-> k[2], RiverStation |-> k[3],
                NumPoints |-> GroupSize(d, k)]>> \o GroupRows(d, K \ {k})

\* df.groupby(['River','Reach','RiverStation']).size().reset_index(name="NumPoints")
GroupBy(d) == GroupRows(d, {KeyOf(d[i]) : i \in 1..Len(d)})

(***************************************************************************)
(* The state of the script                                                 *)
(***************************************************************************)
VARIABLES
    files,           \* what has become of lr_file, in_geom_file and out_geom_file
    debug,           \* flag to print debug output (0=no, 1=yes)
    stdout,          \* the texts printed, one per print()
    farray,          \* the lines of the input geometry file, as readlines() gives them
    df,              \* the rows of the csv, in file order
    df_sort,         \* df sorted by River, Reach, RiverStation, MEAS
    df_grouped,      \* one row per (River, Reach, RiverStation), with NumPoints
    num,             \* the index of the line the loop is at (0-based, as enumerate)
    riv_rch_found,   \* marker: River Reach
    rs_found,        \* marker: River Station
    sta_elev_found,  \* marker: Station Elevation
    row,             \* loop variable of the River Reach search, kept after the loop
    rs,              \* loop variable of the River Station search, kept after the loop
    pt_array,        \* the new sta/elev points of the table being replaced
    fout,            \* the strings written to the output file, one per write()
    pc               \* "read_csv", "read_geom", "open_out", "loop", "closed" after
                     \* fout.close(), or the error that ended the script

vars == <<files, debug, stdout, farray, df, df_sort, df_grouped, num, riv_rch_found,
          rs_found, sta_elev_found, row, rs, pt_array, fout, pc>>

\* the value of a loop variable no loop has bound yet
Unbound == [River |-> "", Reach |-> "", RiverStation |-> 0 - 1, NumPoints |-> 0 - 1]

\* fa[i] for a Python index i: a negative index counts from the end
PyLineOf(fa, i) == IF i < 0 THEN fa[Len(fa) + i + 1] ELSE fa[i + 1]

\* farray[i]
PyLine(i) == PyLineOf(farray, i)

TitleSuffix == "_WithSurvey\n"

\* the markers the loop looks for
RiverReachMark == "River Reach="
TypeRMMark == "Type RM"
StaElevMark == "#Sta/Elev="
MannMark == "#Mann="

\* the fixed field widths of the search strings and the line length of a table
RiverWidth == 16
StationWidth == 8
PairWidth == 16
LastPointWidth == 17
LineWidth == 80

\* what the loop reads and never assigns: the geometry file, the survey table as
\* read, sorted and grouped, and the debug flag
EnvOf(fa, d, dbg) ==
    [farray |-> fa, df |-> d, df_sort |-> SortValues(d), df_grouped |-> GroupBy(d),
     debug |-> dbg]

\* the same, of the state
Env ==
    [farray |-> farray, df |-> df, df_sort |-> df_sort, df_grouped |-> df_grouped,
     debug |-> debug]

\* the working values one pass of the loop body reads and assigns
Locals ==
    [riv_rch_found |-> riv_rch_found, rs_found |-> rs_found,
     sta_elev_found |-> sta_elev_found, row |-> row, rs |-> rs,
     pt_array |-> pt_array, fout |-> fout, stdout |-> stdout, raised |-> FALSE]

\* lines 66-71: the working values when the loop starts, out being what has been
\* printed so far
Locals0(out) ==
    [riv_rch_found |-> 0, rs_found |-> 0, sta_elev_found |-> 0, row |-> Unbound,
     rs |-> Unbound, pt_array |-> <<>>, fout |-> <<>>, stdout |-> out, raised |-> FALSE]

\* "River Reach=" + '{:<16},'.format(row.River) + row.Reach
RivRchString(r) == RiverReachMark \o LJust(r.River, RiverWidth) \o "," \o r.Reach

\* ',{:<8}'.format(rs.RiverStation)
RsString(r) == "," \o LJust(FloatStr(r.RiverStation), StationWidth)

\* '{:8.3f}'.format(pt.MEAS)+'{:8.3f}'.format(pt.ELEV)
EncodePoint(pt) == Fmt8_3f(pt.MEAS) \o Fmt8_3f(pt.ELEV)

\* LoopStop without the break: the loop variable is left at the last row that
\* passes the test
LoopStop_LastHit(n, hits) ==
    IF hits = {} THEN [at |-> n, broke |-> FALSE]
    ELSE [at |-> CHOOSE i \in hits : \A j \in hits : j <= i, broke |-> TRUE]

\* for x in rows: if <test>: break -- the index the loop variable is left at, and
\* whether the loop broke, for n rows of which those at hits pass the test; the
\* index is 0 when there is no row and the variable is not assigned
LoopStop(n, hits) ==
    IF hits = {} THEN [at |-> n, broke |-> FALSE]
    ELSE [at |-> CHOOSE i \in hits : \A j \in hits : i <= j, broke |-> TRUE]

\* print(text)
PyPrint(s, text) == [s EXCEPT !.stdout = Append(@, text)]

\* DebugPrint writing the text to the output file instead of printing it
DebugPrint_ToFile(e, s, text) ==
    IF e.debug # 0 THEN [s EXCEPT !.fout = Append(@, text)] ELSE s

\* if (debug): print(text)
DebugPrint(e, s, text) == IF e.debug # 0 THEN PyPrint(s, text) ELSE s

\* TitleText with the [:-1] forgotten: the line end of the title is kept
TitleText_KeepLineEnd(fa) == PyLineOf(fa, 0) \o TitleSuffix

\* line 78: farray[0][:-1] + "_WithSurvey\n"
TitleText(fa) == DropLast(PyLineOf(fa, 0)) \o TitleSuffix

\* lines 76-78: the title line
TitleStep(e, s, n) ==
    IF n = 0 THEN [s EXCEPT !.fout = Append(@, TitleText(e.farray))]
    ELSE s

\* lines 95-115: the strings the write-out loop writes for pt_array pa, from its
\* n-th point on, with pt_string as it stands before that point
RECURSIVE WriteLoop(_, _, _)
WriteLoop(pa, n, pt_string) ==
    IF n > Len(pa) THEN <<>>
    ELSE LET str == pt_string \o pa[n]
         IN  IF Len(str) = LineWidth
               THEN <<str \o "\n">> \o WriteLoop(pa, n + 1, "")
             ELSE IF Len(str) < LineWidth /\ n < Len(pa)
               THEN WriteLoop(pa, n + 1, str)
             ELSE <<str>> \o WriteLoop(pa, n + 1, str)

\* LastPoint reading the line two before the #Mann= line
LastPoint_TwoBack(fa, n) == Tail_k(PyLineOf(fa, n - 2), LastPointWidth)

\* lines 90-91: the last 17 characters of the line before the #Mann= line
LastPoint(fa, n) == Tail_k(PyLineOf(fa, n - 1), LastPointWidth)

\* FirstPoint taking the second pair of the line after the #Sta/Elev= line
FirstPoint_SecondPair(fa, n) == Slice(PyLineOf(fa, n + 1), PairWidth, 2 * PairWidth)

\* lines 186-187: the first 16 characters of the line after the #Sta/Elev= line
FirstPoint(fa, n) == Slice(PyLineOf(fa, n + 1), 0, PairWidth)

\* line 170: '#Sta/Elev= {}\n'.format(rs.NumPoints+2)
HeaderText(r) == StaElevMark \o " " \o IntStr(r.NumPoints + 2) \o "\n"

\* FlushStep resetting the River Reach marker with the other two
FlushStep_ResetReach(e, s, n, line) ==
    IF s.sta_elev_found = 1 /\ Contains(line, MannMark)
    THEN LET pa == Append(s.pt_array, LastPoint(e.farray, n))
         IN  [s EXCEPT !.pt_array = pa,
                       !.fout = @ \o WriteLoop(pa, 1, ""),
                       !.riv_rch_found = 0,
                       !.rs_found = 0,
                       !.sta_elev_found = 0]
    ELSE s

\* lines 86-122: at the #Mann= line of a replaced table, take the last point of
\* the old table, write the new table out and reset two of the markers
FlushStep(e, s, n, line) ==
    IF s.sta_elev_found = 1 /\ Contains(line, MannMark)
    THEN LET pa == Append(s.pt_array, LastPoint(e.farray, n))
         IN  [s EXCEPT !.pt_array = pa,
                       !.fout = @ \o WriteLoop(pa, 1, ""),
                       !.rs_found = 0,
                       !.sta_elev_found = 0]
    ELSE s

\* line 141: the text of the debug print of a River Reach match
ReachMatchText(r) ==
    "\nFound River Reach Match: " \o r.River \o " " \o r.Reach \o "\n------------------"

\* lines 125-143: the River Reach search over df_grouped
ReachStep(e, s, line) ==
    IF Contains(line, RiverReachMark)
    THEN LET stop == LoopStop(Len(e.df_grouped),
                 {i \in 1..Len(e.df_grouped) :
                     Contains(line, RivRchString(e.df_grouped[i]))})
             s1 == [s EXCEPT !.row = IF stop.at = 0 THEN @ ELSE e.df_grouped[stop.at],
                             !.riv_rch_found = IF stop.broke THEN 1 ELSE @]
         IN  IF stop.broke THEN DebugPrint(e, s1, ReachMatchText(s1.row)) ELSE s1
    ELSE s

\* line 150: the text of the debug print of the River Station search
GroupedDataText(r) == "Getting grouped data for: " \o r.River \o " " \o r.Reach

\* line 161: the text printed for a River Station match
StationMatchText(r) ==
    "Found River Station match: " \o r.River \o ", " \o r.Reach \o ", "
        \o FloatStr(r.RiverStation)

\* lines 146-162: the River Station search over the rows of the current River + Reach
StationStep(e, s, line) ==
    IF s.riv_rch_found = 1 /\ Contains(line, TypeRMMark)
    THEN LET s0 == DebugPrint(e, s, GroupedDataText(s.row))
             df_riv_rch == SelectSeq(e.df_grouped,
                 LAMBDA r : r.River = s.row.River /\ r.Reach = s.row.Reach)
             stop == LoopStop(Len(df_riv_rch),
                 {i \in 1..Len(df_riv_rch) : Contains(line, RsString(df_riv_rch[i]))})
             s1 == [s0 EXCEPT !.rs = IF stop.at = 0 THEN @ ELSE df_riv_rch[stop.at],
                              !.rs_found = IF stop.broke THEN 1 ELSE @]
         IN  IF stop.broke THEN PyPrint(s1, StationMatchText(s1.rs)) ELSE s1
    ELSE s

\* SurveyPoints reading df, the csv in file order, instead of df_sort
SurveyPoints_Unsorted(e, r) ==
    LET df_rs == SelectSeq(e.df, LAMBDA q : /\ q.River = r.River
                                            /\ q.Reach = r.Reach
                                            /\ q.RiverStation = r.RiverStation)
    IN  [i \in 1..Len(df_rs) |-> EncodePoint(df_rs[i])]

\* lines 176-182: the encoded points of the survey group of rs, in df_sort order
SurveyPoints(e, r) ==
    LET df_rs == SelectSeq(e.df_sort, LAMBDA q : /\ q.River = r.River
                                                 /\ q.Reach = r.Reach
                                                 /\ q.RiverStation = r.RiverStation)
    IN  [i \in 1..Len(df_rs) |-> EncodePoint(df_rs[i])]

\* line 174: the text of the debug print of the header rewrite
SurveyForText(r) ==
    "Getting survey for: " \o r.River \o " " \o r.Reach \o " " \o FloatStr(r.RiverStation)

\* lines 165-196: the #Sta/Elev= header of a matched river station is rewritten and
\* the point array started; any other line is copied unless it is line 0 or lies
\* inside a table that is being replaced
HeaderStep(e, s, n, line) ==
    IF s.riv_rch_found = 1 /\ s.rs_found = 1 /\ Contains(line, StaElevMark)
    THEN LET pts == SurveyPoints(e, s.rs)
             s1 == DebugPrint(e,
                       [s EXCEPT !.sta_elev_found = 1,
                                 !.fout = Append(@, HeaderText(s.rs))],
                       SurveyForText(s.rs))
         IN  IF n + 1 >= Len(e.farray)
               THEN [s1 EXCEPT !.pt_array = pts, !.raised = TRUE]
             ELSE [s1 EXCEPT !.pt_array = <<FirstPoint(e.farray, n)>> \o pts]
    ELSE IF n # 0 /\ s.sta_elev_found # 1
    THEN [s EXCEPT !.fout = Append(@, line)]
    ELSE s

\* lines 74-196: one pass of the loop body over the working values s, for line n
Body(e, s, n) ==
    LET line == PyLineOf(e.farray, n)
    IN  HeaderStep(e, StationStep(e, ReachStep(e,
            FlushStep(e, TitleStep(e, s, n), n, line), line), line), n, line)

\* one pass of the loop body in the state, for line num
BodyResult == Body(Env, Locals, num)

\* lines 74-196: the working values when the loop ends or raises, from the
\* working values s before line n
RECURSIVE RunFrom(_, _, _)
RunFrom(e, s, n) ==
    IF n >= Len(e.farray) \/ s.raised THEN s
    ELSE RunFrom(e, Body(e, s, n), n + 1)

\* lines 66-199: the whole rewrite of geometry file fa with survey table d
Run(fa, d, dbg) == RunFrom(EnvOf(fa, d, dbg), Locals0(<<>>), 0)

(***************************************************************************)
(* The input geometry files and survey tables the model is run on          *)
(***************************************************************************)

\* the largest number of blocks (reach lines, cross sections, other lines) after
\* the title line of a composed geometry file
MaxBlocks == 3

\* the largest survey group of the generated survey tables
MaxPts == 8

TitleLine == "Geom Title=Example\n"

\* "River Reach=" line of the geometry file: the river in a 16-character field
ReachLine(rv, rc) == RiverReachMark \o LJust(rv, RiverWidth) \o "," \o rc \o "\n"

\* "Type RM" line of a cross section: the river station in an 8-character field
XSLine(st) ==
    TypeRMMark \o " Length L Ch R = 1 ," \o LJust(st, StationWidth) \o ",100,100,100\n"

HeaderLine(n) == StaElevMark \o " " \o IntStr(n) \o "\n"

MannLine == MannMark \o " 3 , 0 , 0\n"

PlainLine == "XS GIS Cut Line=2\n"

\* a station/elevation pair of the geometry file: two 8-character fields
PairText(p) == Fmt8_3f(p[1]) \o Fmt8_3f(p[2])

\* the body lines of a station/elevation table: five pairs to a line of 80
RECURSIVE BodyLines(_)
BodyLines(pairs) ==
    IF pairs = <<>> THEN <<>>
    ELSE LET k == IF Len(pairs) < 5 THEN Len(pairs) ELSE 5
             RECURSIVE Cat(_)
             Cat(i) == IF i > k THEN "" ELSE PairText(pairs[i]) \o Cat(i + 1)
         IN  <<Cat(1) \o "\n">> \o BodyLines(SubSeq(pairs, k + 1, Len(pairs)))

\* a well-formed table: header, body, #Mann= line
TableLines(pairs) == <<HeaderLine(Len(pairs))>> \o BodyLines(pairs) \o <<MannLine>>

\* the i-th point of a generated cross section
GenPair(i) == <<2500 * (i - 1), 100000 - 1250 * (i - 1)>>

ExamplePairs == <<<<0, 100000>>, <<5000, 98000>>, <<10000, 95000>>>>
SixPairs == [i \in 1..6 |-> GenPair(i)]

\* the tables a cross section of the geometry file may carry
T3 == TableLines(ExamplePairs)
T1 == TableLines(<<<<0, 100000>>>>)
T0 == TableLines(<<>>)
T6 == TableLines(SixPairs)
TShort == <<HeaderLine(1), "  0.0\n", MannLine>>
THeaderTwice == <<HeaderLine(3)>> \o BodyLines(ExamplePairs)
                    \o <<HeaderLine(1)>> \o BodyLines(<<<<7000, 96000>>>>) \o <<MannLine>>
TUnterminated == <<HeaderLine(3)>> \o BodyLines(ExamplePairs)
THeaderLast == <<HeaderLine(3)>>

TableVariants == {T3, T1, T0, T6, TShort, THeaderTwice, TUnterminated, THeaderLast}

DocRivers == {<<"MainStem", "UpperReach">>, <<"MainStem", "Upper">>, <<"Fork", "Lower">>}
DocStations == {"12345.0", "200.5"}

\* the pieces a composed geometry file is made of
Blocks ==
    {<<ReachLine(r[1], r[2])>> : r \in DocRivers}
    \cup {<<XSLine(st)>> \o t : st \in DocStations, t \in {<<>>, T3}}
    \cup {<<PlainLine>>}

RECURSIVE BlockSeqs(_)
BlockSeqs(n) ==
    IF n = 0 THEN {<<>>}
    ELSE LET shorter == BlockSeqs(n - 1)
         IN  shorter \cup {b \o d : b \in Blocks, d \in shorter}

\* geometry files composed of up to MaxBlocks blocks
ComposedDocs == {<<TitleLine>> \o d : d \in BlockSeqs(MaxBlocks)}

\* geometry files with one matched cross section carrying each kind of table
VariantDocs ==
    {<<TitleLine, ReachLine("MainStem", "UpperReach"), XSLine("12345.0")>> \o t \o rest :
        t \in TableVariants, rest \in {<<>>, <<PlainLine>>}}

\* survey rows of one key, from (MEAS, ELEV) pairs, in the order given
GroupRowsOf(rv, rc, st, pts) == [i \in 1..Len(pts) |-> SurveyRow(rv, rc, st, pts[i][1], pts[i][2])]

Reverse(q) == [i \in 1..Len(q) |-> q[Len(q) + 1 - i]]

ExamplePts == <<<<1000, 99500>>, <<4000, 98700>>>>

\* the i-th point of a generated survey group
GenPt(i) == <<1000 * i, 99500 - 125 * i>>

\* a generated group whose last MEAS needs nine characters
WidePts(n) == [i \in 1..n |-> IF i = n THEN <<12000000, 99500>> ELSE GenPt(i)]

GEx == GroupRowsOf("MainStem", "UpperReach", 12345000, ExamplePts)
G2 == GroupRowsOf("MainStem", "UpperReach", 200500, <<<<2500, 50000>>>>)
GP == GroupRowsOf("MainStem", "Upper", 200500, <<<<3000, 97000>>>>)
GF == GroupRowsOf("Fork", "Lower", 200500, <<<<6000, 12250>>>>)

\* survey tables for the composed files; rows are not in sorted order
SmallTables == {<<>>, Reverse(GEx), G2 \o Reverse(GEx), <<GEx[2]>> \o GP \o <<GEx[1]>>,
                GF \o GEx}

\* survey tables with one group of 1..MaxPts points, some with a wide value
SizedTables ==
    {Reverse(GroupRowsOf("MainStem", "UpperReach", 12345000, [i \in 1..n |-> GenPt(i)])) :
        n \in 1..MaxPts}
    \cup {GroupRowsOf("MainStem", "UpperReach", 12345000, WidePts(n)) : n \in 1..MaxPts}

\* a file of a title only, whose text stops without a line end: readlines gives
\* its one line as it is
TitleOnlyDoc == <<"Geom Title=Example">>

Inputs ==
    (ComposedDocs \X SmallTables) \cup (VariantDocs \X (SmallTables \cup SizedTables))
        \cup ({TitleOnlyDoc} \X SmallTables)

(***************************************************************************)
(* The script as a state machine                                           *)
(***************************************************************************)

\* lines 32-35 and 58: the file names
in_geom_file == "Newaukum.g07"
lr_file == "Newaukum_XSEC_for_SurfaceDevelopment_LinearReferencing.csv"
out_geom_file == Slice(in_geom_file, 0, Len(in_geom_file) - 4) \o ".g99"

\* the survey tables lr_file may hold, and the geometry files in_geom_file may
\* hold beside the survey table d
SurveyTables == {in[2] : in \in Inputs}
GeomFilesWith(d) == {in[1] : in \in {x \in Inputs : x[2] = d}}

\* line 41: the script starts, nothing is read and out_geom_file does not exist
Init ==
    /\ files = [lr_file |-> "unread", in_geom_file |-> "unread", out_geom_file |-> "absent"]
    /\ debug \in {0, 1}
    /\ stdout = <<>>
    /\ farray = <<>>
    /\ df = <<>>
    /\ df_sort = <<>>
    /\ df_grouped = <<>>
    /\ num = 0
    /\ riv_rch_found = 0
    /\ rs_found = 0
    /\ sta_elev_found = 0
    /\ row = Unbound
    /\ rs = Unbound
    /\ pt_array = <<>>
    /\ fout = <<>>
    /\ pc = "read_csv"

\* OnReadCsv going on to the next statement when read_csv has raised
OnReadCsv_GoOn(ok) == "read_geom"

\* line 48: where the script is after pd.read_csv: an exception of read_csv (file
\* missing or unreadable, a column of col_list missing) is not caught and ends it
OnReadCsv(ok) == IF ok THEN "read_geom" ELSE "ReadCsvError"

\* lines 48-55: the csv is read, sorted and grouped, or read_csv raises
ReadCsv ==
    /\ pc = "read_csv"
    /\ \E ok \in BOOLEAN :
          /\ pc' = OnReadCsv(ok)
          /\ IF ok
               THEN /\ \E d \in SurveyTables : df' = d
                    /\ df_sort' = SortValues(df')
                    /\ df_grouped' = GroupBy(df')
                    /\ files' = [files EXCEPT !.lr_file = "loaded"]
                    /\ stdout' = Append(stdout, "Reading survey data file: " \o lr_file)
               ELSE /\ files' = [files EXCEPT !.lr_file = "failed"]
                    /\ UNCHANGED <<df, df_sort, df_grouped, stdout>>
    /\ UNCHANGED <<debug, farray, num, riv_rch_found, rs_found, sta_elev_found, row, rs,
                   pt_array, fout>>

\* lines 61-63: the geometry file is read into farray, or open raises
ReadGeom ==
    /\ pc = "read_geom"
    /\ stdout' = Append(stdout, "Reading HEC-RAS geometry file: " \o in_geom_file)
    /\ \E ok \in BOOLEAN :
          IF ok
            THEN /\ \E fa \in GeomFilesWith(df) : farray' = fa
                 /\ files' = [files EXCEPT !.in_geom_file = "read"]
                 /\ pc' = "open_out"
            ELSE /\ files' = [files EXCEPT !.in_geom_file = "failed"]
                 /\ pc' = "FileNotFoundError"
                 /\ UNCHANGED farray
    /\ UNCHANGED <<debug, df, df_sort, df_grouped, num, riv_rch_found, rs_found,
                   sta_elev_found, row, rs, pt_array, fout>>

\* lines 66-71: the output file is created and the markers are set
OpenOut ==
    /\ pc = "open_out"
    /\ files' = [files EXCEPT !.out_geom_file = "open"]
    /\ \E s \in {Locals0(stdout)} :
           /\ riv_rch_found' = s.riv_rch_found
           /\ rs_found' = s.rs_found
           /\ sta_elev_found' = s.sta_elev_found
           /\ fout' = s.fout
    /\ pc' = "loop"
    /\ UNCHANGED <<debug, stdout, farray, df, df_sort, df_grouped, num, row, rs, pt_array>>

\* lines 74-196: the loop body runs for the line at num; farray[num+1] past the
\* end of the file raises IndexError and the script stops
LoopBody ==
    /\ pc = "loop"
    /\ num < Len(farray)
    /\ \E s \in {BodyResult} :
           /\ riv_rch_found' = s.riv_rch_found
           /\ rs_found' = s.rs_found
           /\ sta_elev_found' = s.sta_elev_found
           /\ row' = s.row
           /\ rs' = s.rs
           /\ pt_array' = s.pt_array
           /\ fout' = s.fout
           /\ stdout' = s.stdout
           /\ pc' = IF s.raised THEN "IndexError" ELSE "loop"
           /\ num' = IF s.raised THEN num ELSE num + 1
    /\ UNCHANGED <<files, debug, farray, df, df_sort, df_grouped>>

\* lines 198-201: the loop is over, the output file is closed
Close ==
    /\ pc = "loop"
    /\ num = Len(farray)
    /\ pc' = "closed"
    /\ files' = [files EXCEPT !.out_geom_file = "closed"]
    /\ stdout' = Append(stdout, "New geometry file with survey is: " \o out_geom_file)
    /\ UNCHANGED <<debug, farray, df, df_sort, df_grouped, num, riv_rch_found, rs_found,
                   sta_elev_found, row, rs, pt_array, fout>>

Next == ReadCsv \/ ReadGeom \/ OpenOut \/ LoopBody \/ Close

Spec == Init /\ [][Next]_vars

\* line 74: enumerate hands the loop the next line
LoopAdvance == pc = "loop" /\ num < Len(farray) /\ pc' = "loop" /\ num' = num + 1

\* the script is one sequential run: a statement that can run does run.  The
\* fairness of the loop is on LoopAdvance, the step of enumerate: while a line is
\* left the loop goes on to it, unless the body raised
FairSpec ==
    Spec /\ WF_vars(ReadCsv) /\ WF_vars(ReadGeom) /\ WF_vars(OpenOut)
         /\ WF_<<pc, num>>(LoopAdvance) /\ WF_vars(Close)

(***************************************************************************)
(* Reading the geometry file by its fields, independently of the script's  *)
(* substring tests: what the file itself says about each line              *)
(***************************************************************************)

IsReachLine(i) == Contains(PyLine(i), RiverReachMark)
IsXSLine(i) == Contains(PyLine(i), TypeRMMark)
IsHeaderLine(i) == Contains(PyLine(i), StaElevMark)
IsMannLine(i) == Contains(PyLine(i), MannMark)

\* s without its trailing blanks and line end
RECURSIVE RStrip(_)
RStrip(s) ==
    IF Len(s) = 0 THEN ""
    ELSE IF SubSeq(s, Len(s), Len(s)) \in {" ", "\n"} THEN RStrip(SubSeq(s, 1, Len(s) - 1))
    ELSE s

\* the 0-based position of the first occurrence of p in s (p occurs in s)
Find(s, p) == CHOOSE i \in 0..Len(s) :
                 /\ Slice(s, i, i + Len(p)) = p
                 /\ \A j \in 0..(i - 1) : Slice(s, j, j + Len(p)) # p

\* the waterway of a reach line: the 16-character field after the marker
DocRiver(line) ==
    LET a == Find(line, RiverReachMark) + Len(RiverReachMark)
    IN  RStrip(Slice(line, a, a + RiverWidth))

\* the reach of a reach line: what follows the comma that ends the waterway field
DocReach(line) ==
    LET a == Find(line, RiverReachMark) + Len(RiverReachMark) + RiverWidth + 1
    IN  RStrip(Slice(line, a, Len(line)))

\* the station of a cross-section line: the 8-character field after the first comma
DocStation(line) ==
    LET a == Find(line, ",") + 1
    IN  RStrip(Slice(line, a, a + StationWidth))

\* the greatest member of a set S of line indexes, or -1 when S is empty
Latest(S) == IF S = {} THEN 0 - 1 ELSE CHOOSE j \in S : \A k \in S : k <= j

NoKey == <<"", "", "">>

\* the key of the cross section that line i belongs to: the reach of the latest
\* reach line and the station of the latest cross-section line after it
DocKeyAt(i) ==
    LET r == Latest({j \in 0..i : IsReachLine(j)})
        x == Latest({j \in 0..i : IsXSLine(j)})
    IN  IF r < 0 \/ x < r THEN NoKey
        ELSE <<DocRiver(PyLine(r)), DocReach(PyLine(r)), DocStation(PyLine(x))>>

\* the rows of the survey table under the key k (station compared as formatted)
SurveyGroup(k) ==
    SelectSeq(df, LAMBDA q : q.River = k[1] /\ q.Reach = k[2] /\ FloatStr(q.RiverStation) = k[3])

HasGroup(k) == SurveyGroup(k) # <<>>

\* the header line of the table that line i lies in (header, body or terminator),
\* or -1 when line i lies in no table
TableHeaderOf(i) ==
    LET S == {h \in 0..i : IsHeaderLine(h) /\ \A j \in h..(i - 1) : ~IsMannLine(j)}
    IN  IF S = {} THEN 0 - 1 ELSE CHOOSE h \in S : \A k \in S : h <= k

\* the loop body is about to run for line num
AtLine == pc = "loop" /\ num < Len(farray)

\* the strings the step writes
Written == SubSeq(fout', Len(fout) + 1, Len(fout'))

(***************************************************************************)
(* Claims                                                                  *)
(***************************************************************************)

IsPrefix(a, b) == Len(a) <= Len(b) /\ SubSeq(b, 1, Len(a)) = a

\* no survey reach name is a proper prefix of a reach name of the document
\* (same waterway): the tables on which the substring test of C9 cannot collide
ExactReachNames ==
    \A i \in 0..(Len(farray) - 1) : \A j \in 1..Len(df_grouped) :
        (/\ IsReachLine(i)
         /\ df_grouped[j].River = DocRiver(PyLine(i))
         /\ IsPrefix(df_grouped[j].Reach, DocReach(PyLine(i))))
        => df_grouped[j].Reach = DocReach(PyLine(i))

\* C1 (non-interference): every line of the point table (header, body lines,
\* terminator) of a cross section whose (waterway, reach, station) key has no
\* survey group is written to the output exactly as it is in the input,
\* whatever reach lines, cross-section lines and rewritten tables precede it.
\* Stated for the survey tables of ExactReachNames, where the prefix match of C9
\* plays no part.
C1_NonInterference ==
    [][(/\ AtLine
        /\ ExactReachNames
        /\ num > 0
        /\ TableHeaderOf(num) >= 0
        /\ ~HasGroup(DocKeyAt(TableHeaderOf(num))))
       => Written = <<PyLine(num)>>]_vars

\* the header the rewriter is to write for a group of n points
ExpectedHeader(n) == "#Sta/Elev= " \o IntStr(n + 2) \o "\n"

\* C2 (completeness of replacement): at the point-table header of every cross
\* section whose waterway, reach and station match a survey group, the table is
\* replaced by that group: the header is rewritten with the group's size plus 2
\* and the point table is started with the anchor and the group's points.
C2_Completeness ==
    [][(/\ AtLine
        /\ IsHeaderLine(num)
        /\ TableHeaderOf(num) = num
        /\ num + 1 < Len(farray)
        /\ HasGroup(DocKeyAt(num)))
       => (/\ Written = <<ExpectedHeader(Len(SurveyGroup(DocKeyAt(num))))>>
           /\ sta_elev_found' = 1
           /\ Len(pt_array') = Len(SurveyGroup(DocKeyAt(num))) + 1)]_vars

\* C2 on the survey tables of ExactReachNames (not a claim: it shows that C2
\* fails through the prefix match of C9 only)
C2_WhenExact ==
    [][(/\ AtLine
        /\ ExactReachNames
        /\ IsHeaderLine(num)
        /\ TableHeaderOf(num) = num
        /\ num + 1 < Len(farray)
        /\ HasGroup(DocKeyAt(num)))
       => (/\ Written = <<ExpectedHeader(Len(SurveyGroup(DocKeyAt(num))))>>
           /\ sta_elev_found' = 1
           /\ Len(pt_array') = Len(SurveyGroup(DocKeyAt(num))) + 1)]_vars

\* C9 (exact key equality): a reach line that makes the rewriter remember a
\* reach does so only for a survey key whose waterway and reach are exactly the
\* line's waterway and reach.
C9_ExactKey ==
    [][(/\ AtLine
        /\ IsReachLine(num)
        /\ riv_rch_found = 0
        /\ riv_rch_found' = 1)
       => (/\ row'.River = DocRiver(PyLine(num))
           /\ row'.Reach = DocReach(PyLine(num)))]_vars

(***************************************************************************)
(* The table a flush writes, read back as text                              *)
(***************************************************************************)

\* the loop body is about to run for the #Mann= line that ends a replaced table
FlushAt == AtLine /\ sta_elev_found = 1 /\ IsMannLine(num)

\* the strings of q joined
RECURSIVE Join(_)
Join(q) == IF q = <<>> THEN "" ELSE Head(q) \o Join(Tail(q))

\* what the flush step writes before it copies the #Mann= line
TableWrites == SubSeq(Written, 1, Len(Written) - 1)

TableText == Join(TableWrites)

\* the position of the first line end of t, 0 when there is none
FirstNL(t) ==
    LET P == {i \in 1..Len(t) : SubSeq(t, i, i) = "\n"}
    IN  IF P = {} THEN 0 ELSE CHOOSE i \in P : \A j \in P : i <= j

\* the lines of t, without their line ends
RECURSIVE SplitLines(_)
SplitLines(t) ==
    IF Len(t) = 0 THEN <<>>
    ELSE LET p == FirstNL(t)
         IN  IF p = 0 THEN <<t>>
             ELSE <<SubSeq(t, 1, p - 1)>> \o SplitLines(SubSeq(t, p + 1, Len(t)))

\* t without its line ends
NoNL(t) == Join(SplitLines(t))

RECURSIVE SumLen16(_)
SumLen16(ls) == IF ls = <<>> THEN 0 ELSE (Len(Head(ls)) \div 16) + SumLen16(Tail(ls))

\* the number of 16-character pairs on the lines of t
PairsIn(t) == SumLen16(SplitLines(t))

\* the body lines of the original table that ends at the #Mann= line t are whole
\* lines of one to five 16-character pairs, and there is at least one
WellFormedBody(h, t) ==
    /\ h >= 0
    /\ t > h + 1
    /\ \A j \in (h + 1)..(t - 1) :
          /\ Len(PyLine(j)) \in {17, 33, 49, 65, 81}
          /\ ~IsHeaderLine(j)

\* the original table that ends at the #Mann= line t has no body line at all
EmptyBody(h, t) == h >= 0 /\ t = h + 1

\* the first pair of the original table, the last pair of the original table
OrigFirst(h) == Slice(PyLine(h + 1), 0, 16)
OrigLast(t) == Tail_k(RStrip(PyLine(t - 1)), 16)

\* the first and the last pair of the table the flush writes
OutFirst == Slice(TableText, 0, 16)
OutLast == Tail_k(NoNL(TableText), 16)

\* the survey points of the group of key k, ascending in MEAS, as 16-character
\* pairs one after the other
GroupText(k) ==
    LET g == SortValues(SelectSeq(df, LAMBDA q : KeyOf(q) = k))
    IN  Join([i \in 1..Len(g) |-> PairText(<<g[i].MEAS, g[i].ELEV>>)])

\* every survey value fits its 8-character field, so every pair is 16 wide
NarrowPairs ==
    \A i \in 1..Len(df) : Len(Fmt8_3f(df[i].MEAS)) = 8 /\ Len(Fmt8_3f(df[i].ELEV)) = 8

\* C3 (count invariant): for every rewritten cross section the count in the
\* rewritten header is the size of the matched survey group plus 2, and the number
\* of 16-character pairs written between that header and the terminator is that
\* count.  Stated for original tables with a well-formed body.
C3_CountInvariant ==
    [][(FlushAt /\ WellFormedBody(TableHeaderOf(num), num))
       => (/\ fout[Len(fout)] = ExpectedHeader(GroupSize(df, KeyOf(rs)))
           /\ PairsIn(TableText) = GroupSize(df, KeyOf(rs)) + 2)]_vars

\* C3 on the survey tables of NarrowPairs (not a claim: it shows that C3 fails
\* through the wide pair of C8 only)
C3_WhenNarrow ==
    [][(FlushAt /\ NarrowPairs /\ WellFormedBody(TableHeaderOf(num), num))
       => (/\ fout[Len(fout)] = ExpectedHeader(GroupSize(df, KeyOf(rs)))
           /\ PairsIn(TableText) = GroupSize(df, KeyOf(rs)) + 2)]_vars

\* p is the text of a pair: 16 characters of two 8.3f fields
IsPairText(p) ==
    /\ Len(p) = 16
    /\ \A i \in 1..16 : SubSeq(p, i, i) \in {" ", "-", "."} \cup {DigitChar(d) : d \in 0..9}

\* C4 (anchor preservation): for every rewritten cross section, whatever the
\* length of the original table (a single line, a single point and no point at all
\* included), the first pair written is the first pair of the original table and
\* the last pair written is its last pair.
C4_AnchorsEveryLength ==
    [][(FlushAt /\ (\/ WellFormedBody(TableHeaderOf(num), num)
                    \/ EmptyBody(TableHeaderOf(num), num)))
       => (/\ IsPairText(OutFirst)
           /\ IsPairText(OutLast)
           /\ OutFirst = OrigFirst(TableHeaderOf(num))
           /\ OutLast = OrigLast(num))]_vars

\* C4 on the original tables that have at least one point, a single line and a
\* single point included (not a claim: it shows that C4 fails on the table without
\* points only)
C4_Anchors ==
    [][(FlushAt /\ WellFormedBody(TableHeaderOf(num), num))
       => (/\ IsPairText(OutFirst)
           /\ IsPairText(OutLast)
           /\ OutFirst = OrigFirst(TableHeaderOf(num))
           /\ OutLast = OrigLast(num))]_vars

\* a table with a single point has been replaced and its anchors written
C4_Witness ==
    /\ num >= 3
    /\ IsMannLine(num - 1)
    /\ IsHeaderLine(num - 3)
    /\ Len(PyLine(num - 2)) = 17
    /\ sta_elev_found = 0
    /\ Len(pt_array) >= 3
    /\ pt_array[1] = Slice(PyLine(num - 2), 0, 16)
    /\ pt_array[Len(pt_array)] = PyLine(num - 2)
    /\ fout[Len(fout)] = PyLine(num - 1)

\* C5 (order preservation): in every rewritten table the pairs between the first
\* and the last are exactly the matched group's points, each once, ascending in
\* MEAS.  Stated for original tables with a well-formed body.
C5_OrderPreserved ==
    [][(FlushAt /\ WellFormedBody(TableHeaderOf(num), num))
       => NoNL(TableText) = OrigFirst(TableHeaderOf(num)) \o GroupText(KeyOf(rs))
                               \o OrigLast(num)]_vars

\* C5 on the survey tables of NarrowPairs (not a claim: it shows that C5 fails
\* through the wide pair of C8 only)
C5_WhenNarrow ==
    [][(FlushAt /\ NarrowPairs /\ WellFormedBody(TableHeaderOf(num), num))
       => NoNL(TableText) = OrigFirst(TableHeaderOf(num)) \o GroupText(KeyOf(rs))
                               \o OrigLast(num)]_vars

\* the number of members of q that equal x
Count(q, x) == Cardinality({i \in 1..Len(q) : q[i] = x})

\* C8 (no duplication): no input line is written more than once, nothing is
\* written while a table is open (so a rewritten header is written once per
\* table), and a flush writes every pair of the point table once.
C8_NoDuplication ==
    [][AtLine
       => (/\ Count(Written, PyLine(num)) <= 1
           /\ (sta_elev_found = 1 /\ ~IsMannLine(num)) => Written = <<>>
           /\ FlushAt => NoNL(TableText) = NoNL(Join(pt_array')))]_vars

\* line i is too short to hold a 16-character pair
TooShort(i) == Len(RStrip(PyLine(i))) < 16

\* C10 (malformed anchors are fatal): when the line after a rewritten header or
\* the line before the terminator is too short to hold a 16-character pair, no
\* table is written and the rewrite ends in an error.
C10_MalformedFatal ==
    [][(FlushAt /\ (TooShort(TableHeaderOf(num) + 1) \/ TooShort(num - 1)))
       => (Written = <<>> /\ pc' # "loop")]_vars

\* a line without its line end
LineBody(l) ==
    IF Len(l) > 0 /\ SubSeq(l, Len(l), Len(l)) = "\n" THEN SubSeq(l, 1, Len(l) - 1) ELSE l

\* the lines of the output file as written so far
OutLines == SplitLines(Join(fout))

\* the first n lines of the input with the suffix on the title, nothing else changed
TitledCopy(n) ==
    [i \in 1..n |-> IF i = 1 THEN LineBody(farray[1]) \o "_WithSurvey" ELSE LineBody(farray[i])]

\* C6 (empty survey table): with a survey table of no rows the output is, line
\* for line, the input with the fixed suffix appended to the title on line 0.
C6_EmptySurvey ==
    (df = <<>> /\ pc \in {"loop", "closed"}) => OutLines = TitledCopy(num)

\* a file with a reach line, a cross-section line and a point table has been
\* rewritten to the end with an empty survey table
C6_Witness ==
    /\ pc = "closed"
    /\ df = <<>>
    /\ \E i, j, k \in 1..(Len(farray) - 1) :
          i < j /\ j < k /\ IsReachLine(i) /\ IsXSLine(j) /\ IsHeaderLine(k)
    /\ Len(OutLines) = Len(farray)

\* the number a field of digits (with a decimal point) stands for, in thousandths
RECURSIVE NatVal(_)
NatVal(t) ==
    IF Len(t) = 0 THEN 0
    ELSE 10 * NatVal(SubSeq(t, 1, Len(t) - 1))
           + (CHOOSE d \in 0..9 : DigitChar(d) = SubSeq(t, Len(t), Len(t)))

RECURSIVE LStrip(_)
LStrip(t) == IF Len(t) > 0 /\ Head(t) = " " THEN LStrip(Tail(t)) ELSE t

\* the value of an 8.3f field: nnn.ddd, blank-padded on the left
FieldVal(f) ==
    LET t == LStrip(f)
        neg == Len(t) > 0 /\ Head(t) = "-"
        u == IF neg THEN Tail(t) ELSE t
        v == 1000 * NatVal(SubSeq(u, 1, Len(u) - 4)) + NatVal(SubSeq(u, Len(u) - 2, Len(u)))
    IN  IF neg THEN 0 - v ELSE v

\* the (station, elevation) pairs of a table line of 16-character pairs
DecodeLine(l) ==
    [i \in 1..(Len(l) \div 16) |->
        <<FieldVal(SubSeq(l, 16 * i - 15, 16 * i - 8)), FieldVal(SubSeq(l, 16 * i - 7, 16 * i))>>]

ExampleDoc ==
    <<"Geom Title=Example\n",
      "River Reach=MainStem        ,UpperReach\n",
      "Type RM Length L Ch R = 1 ,12345.0 ,100,100,100\n",
      "#Sta/Elev= 3\n",
      "   0.000 100.000   5.000  98.000  10.000  95.000\n",
      "#Mann= 3 , 0 , 0\n">>

\* the survey table of the example: the two points of key (MainStem, UpperReach,
\* 12345.0), in either file order
ExampleSurvey ==
    /\ Len(df) = 2
    /\ {df[1], df[2]} = {SurveyRow("MainStem", "UpperReach", 12345000, 1000, 99500),
                         SurveyRow("MainStem", "UpperReach", 12345000, 4000, 98700)}

\* C7 (end-to-end example): for the document with reach MainStem/UpperReach, one
\* cross section at station 12345.0 with the table (0,100) (5,98) (10,95) and the
\* survey points (1,99.5) (4,98.7), the output header count is 4 and the output
\* table is (0,100) (1,99.5) (4,98.7) (10,95).
C7_Example ==
    (pc = "closed" /\ farray = ExampleDoc /\ ExampleSurvey)
    => /\ Len(OutLines) = 6
       /\ OutLines[4] = "#Sta/Elev= 4"
       /\ DecodeLine(OutLines[5]) =
            <<<<0, 100000>>, <<1000, 99500>>, <<4000, 98700>>, <<10000, 95000>>>>
       /\ OutLines[5] = "   0.000 100.000   1.000  99.500   4.000  98.700  10.000  95.000"
       /\ OutLines[6] = "#Mann= 3 , 0 , 0"

\* the example has been rewritten to the end
C7_Witness == pc = "closed" /\ farray = ExampleDoc /\ ExampleSurvey /\ Len(fout) = 6

(***************************************************************************)
(* Errors, loading and the debug flag                                      *)
(***************************************************************************)

\* the script has ended, by fout.close() or by an exception
Ended == pc \notin {"read_csv", "read_geom", "open_out", "loop"}

\* the script has ended inside a table it was replacing: a #Sta/Elev= header was
\* rewritten and no #Mann= line came after it
EndedInTable == Ended /\ sta_elev_found = 1

\* C11 (unterminated table is all-or-nothing): when the header of a matched cross
\* section is rewritten and no terminator follows before the end of the file (the
\* header being the last line included), the rewrite ends in an error and there
\* is no output file: the lines already written are not left in it.
C11_AllOrNothing ==
    EndedInTable => (pc # "closed" /\ files.out_geom_file = "absent")

\* the output file exists or something has been written to it
OutputStarted == files.out_geom_file # "absent" \/ fout # <<>>

\* C12 (load-before-write ordering): the output file is not created or written
\* until the survey table has been loaded and the geometry file has been read; when
\* the survey table fails to load the script ends there and leaves no output.
C12_LoadBeforeWrite ==
    /\ OutputStarted => (files.lr_file = "loaded" /\ files.in_geom_file = "read")
    /\ files.lr_file = "failed" => (Ended /\ ~OutputStarted)

\* the survey table has failed to load and the script has ended without output
C12_Witness ==
    /\ pc = "ReadCsvError"
    /\ files.lr_file = "failed"
    /\ files.in_geom_file = "unread"
    /\ files.out_geom_file = "absent"

\* the loop has ended, by running out of lines or by an exception
LoopEnded == pc \in {"closed", "IndexError"}

\* the key of survey row q as the geometry file writes keys
RowKey(q) == <<q.River, q.Reach, FloatStr(q.RiverStation)>>

\* the keys of the cross sections of the geometry file
DocKeys == {DocKeyAt(i) : i \in {j \in 0..(Len(farray) - 1) : IsXSLine(j)}}

\* the survey table without the rows whose key is the key of no cross section
UsedRows == SelectSeq(df, LAMBDA q : RowKey(q) \in DocKeys)

\* C13 (unused survey keys are harmless): when the survey table has a key that is
\* the key of no cross section of the geometry file, the rewrite ends as it ends
\* without the rows of that key, without an error of its own, and the output is
\* the output of the rewrite without them.  Stated for the survey tables of
\* ExactReachNames, where the prefix match of C9 plays no part.
C13_UnusedKeys ==
    (LoopEnded /\ ExactReachNames /\ UsedRows # df)
    => \E r \in {Run(farray, UsedRows, debug)} :
           /\ r.raised <=> pc = "IndexError"
           /\ fout = r.fout

\* C15 (the debug toggle does not influence the result): for the same geometry
\* file and survey table, the output written with debug on is the output written
\* with debug off, and the rewrite ends the same way.
C15_DebugToggle ==
    LoopEnded
    => \E r \in {Run(farray, df, 1 - debug)} :
           /\ r.raised <=> pc = "IndexError"
           /\ fout = r.fout

\* a rewrite with debug on has printed its three debug texts, replaced a table
\* and closed the output
C15_Witness ==
    /\ pc = "closed"
    /\ debug = 1
    /\ rs # Unbound
    /\ \E i, j, k \in 1..Len(stdout) :
          /\ i < j /\ j < k
          /\ stdout[i] = ReachMatchText(row)
          /\ stdout[j] = GroupedDataText(row)
          /\ stdout[k] = SurveyForText(rs)
    /\ \E i \in 1..Len(fout) : fout[i] = HeaderText(rs)

(***************************************************************************)
(* The layout and the place of a rewritten table                           *)
(***************************************************************************)

\* the text t is n pairs packed five to a line: ceil(n/5) lines, each of 80
\* characters but the last, which holds the 1 to 5 pairs left, and every line,
\* the last included, ends in a line end
Packed(t, n) ==
    LET ls == SplitLines(t)
        m == (n + 4) \div 5
    IN  /\ n >= 1
        /\ Len(ls) = m
        /\ \A i \in 1..(m - 1) : Len(ls[i]) = LineWidth
        /\ Len(ls[m]) = PairWidth * (n - 5 * (m - 1))
        /\ SubSeq(t, Len(t), Len(t)) = "\n"

\* C14 (packing): a rewritten table of n pairs is written as ceil(n/5) lines of
\* exactly 5 pairs (80 characters), the last line holding 1 to 5 pairs, and every
\* line of the table, the last one when n is a multiple of 5 included, ends in a
\* line end, so that the terminator starts on a line of its own.
C14_Packing ==
    [][FlushAt => Packed(TableText, Len(pt_array'))]_vars

\* C14 on the survey tables of NarrowPairs and the original tables with a
\* well-formed body (not a claim: it shows that C14 fails through the wide pair of
\* C8 and the short anchors of C10 only)
C14_WhenNarrow ==
    [][(FlushAt /\ NarrowPairs /\ WellFormedBody(TableHeaderOf(num), num))
       => Packed(TableText, Len(pt_array'))]_vars

\* the loop body is about to run for a #Sta/Elev= line and rewrites it: it writes
\* and leaves a table open
RewritesHeader ==
    /\ AtLine
    /\ IsHeaderLine(num)
    /\ num + 1 < Len(farray)
    /\ sta_elev_found' = 1
    /\ Len(fout') > Len(fout)

\* C16 (right group for the right record): whenever a point-table header is
\* rewritten, the group put in its place, count and points, is the survey group
\* whose key is the waterway and reach of the latest reach line and the station
\* of the latest cross-section line before the header; a station matched on an
\* earlier cross-section line that had no table is not carried over.  Stated for
\* the survey tables of ExactReachNames, where the prefix match of C9 plays no part.
C16_RightGroup ==
    [][(RewritesHeader /\ ExactReachNames)
       => (/\ HasGroup(DocKeyAt(num))
           /\ RowKey(rs') = DocKeyAt(num)
           /\ Written = <<ExpectedHeader(Len(SurveyGroup(DocKeyAt(num))))>>
           /\ Join(Tail(pt_array')) = GroupText(KeyOf(rs')))]_vars

\* line i lies after a reach line, and the latest reach line at or before it
\* matches no survey row, not even by the substring test of the script
UnderUnmatchedReach(i) ==
    LET r == Latest({j \in 0..i : IsReachLine(j)})
    IN  /\ r >= 0
        /\ \A j \in 1..Len(df_grouped) : ~Contains(PyLine(r), RivRchString(df_grouped[j]))

\* C17 (an unmatched reach is never matched): after a reach line that matches no
\* survey key, no cross-section line is station-matched and no header is
\* rewritten until a later reach line matches, even when an earlier reach line of
\* the file matched.
C17_UnmatchedReach ==
    [][(AtLine /\ UnderUnmatchedReach(num))
       => (/\ ~(rs_found = 0 /\ rs_found' = 1)
           /\ ~(sta_elev_found = 0 /\ sta_elev_found' = 1))]_vars

\* the loop body is about to run for a line inside a table that is being
\* replaced, the terminator excluded
InsideTable == AtLine /\ sta_elev_found = 1 /\ ~IsMannLine(num)

\* C18 (suppression has priority): while a table is being replaced, after the
\* rewritten header and before the terminator, a line that is not the terminator
\* writes nothing and leaves the remembered reach, the remembered station and
\* group, and the point table as they are, whichever markers the line holds.
C18_Suppression ==
    [][InsideTable
       => (/\ Written = <<>>
           /\ riv_rch_found' = riv_rch_found
           /\ row' = row
           /\ rs_found' = rs_found
           /\ rs' = rs
           /\ pt_array' = pt_array)]_vars

\* the flush step leaves the record in the output in order and in one piece: the
\* rewritten header is the last string written before the step, the step writes
\* the leading anchor, the survey pairs in ascending MEAS and the trailing anchor,
\* and then the terminator line, once
RecordInOrder ==
    /\ fout[Len(fout)] = ExpectedHeader(GroupSize(df, KeyOf(rs)))
    /\ NoNL(TableText) = OrigFirst(TableHeaderOf(num)) \o GroupText(KeyOf(rs))
                             \o OrigLast(num)
    /\ Written[Len(Written)] = PyLine(num)
    /\ Count(Written, PyLine(num)) = 1

\* C19 (emission order of a rewritten record): the output holds, in this order
\* and in one piece, the rewritten header, the leading anchor, the survey pairs,
\* the trailing anchor and then the terminator line once; nothing of the table
\* is written before the terminator line is reached in the input.
C19_EmissionOrder ==
    [][/\ (FlushAt /\ WellFormedBody(TableHeaderOf(num), num)) => RecordInOrder
       /\ InsideTable => Written = <<>>]_vars

\* C19 on the survey tables of NarrowPairs and the original tables with a
\* well-formed body (not a claim: it shows that C19 fails through the wide pair of
\* C8 and the marker inside a table of C18 only)
C19_WhenNarrow ==
    [][/\ (FlushAt /\ NarrowPairs /\ WellFormedBody(TableHeaderOf(num), num))
              => RecordInOrder
       /\ (InsideTable /\ ~IsHeaderLine(num)) => Written = <<>>]_vars

\* C20 as claimed (return to IDLE): after the terminator of a rewritten table has
\* been processed the rewriter remembers neither a reach nor a station and is not
\* emitting.
C20_ReturnToIdle ==
    [][FlushAt
       => (/\ riv_rch_found' = 0
           /\ rs_found' = 0
           /\ sta_elev_found' = 0)]_vars

\* the survey keys of the remembered reach whose station is the station of line i
StationsOfRow(i) ==
    {j \in 1..Len(df_grouped) :
        /\ df_grouped[j].River = row.River
        /\ df_grouped[j].Reach = row.Reach
        /\ FloatStr(df_grouped[j].RiverStation) = DocStation(PyLine(i))}

\* C20 as amended (after the flush): after the terminator of a rewritten table has
\* been processed the rewriter is not emitting and remembers no station, but it
\* still remembers the reach; a following cross-section line whose station is a
\* surveyed station of the remembered reach is station-matched, to that station,
\* without a new reach line.
C20_AfterFlush ==
    [][/\ FlushAt
          => (/\ sta_elev_found' = 0
              /\ rs_found' = 0
              /\ riv_rch_found' = 1
              /\ row' = row)
       /\ (/\ AtLine
           /\ IsXSLine(num)
           /\ ~IsReachLine(num)
           /\ riv_rch_found = 1
           /\ rs_found = 0
           /\ StationsOfRow(num) # {})
          => (/\ rs_found' = 1
              /\ rs' \in {df_grouped[j] : j \in StationsOfRow(num)})]_vars

\* a table has been replaced and flushed, and the cross-section line that comes
\* after its terminator, with no reach line between, has been station-matched
C20_Witness ==
    /\ pc = "loop"
    /\ num >= 2
    /\ IsXSLine(num - 1)
    /\ IsMannLine(num - 2)
    /\ pt_array # <<>>
    /\ fout[Len(fout) - 1] = PyLine(num - 2)
    /\ sta_elev_found = 0
    /\ rs_found = 1
    /\ RowKey(rs) = DocKeyAt(num - 1)

(***************************************************************************)
(* Matching order, field widths, the title, the pass and the markers       *)
(***************************************************************************)

\* the rows of the grouped table whose formatted River + Reach occurs in line i
ReachHits(i) ==
    {j \in 1..Len(df_grouped) : Contains(PyLine(i), RivRchString(df_grouped[j]))}

\* the reaches of the rows of ReachHits(i)
HitReaches(i) == {<<df_grouped[j].River, df_grouped[j].Reach>> : j \in ReachHits(i)}

\* C21 (first match wins): when the formatted text of several survey key groups
\* occurs in one reach line, the group that comes first in the order of the
\* grouped table is the one remembered, and a cross-section line that follows is
\* station-matched only to a station of that group's waterway and reach.
C21_FirstMatchWins ==
    [][/\ (AtLine /\ IsReachLine(num) /\ Cardinality(ReachHits(num)) >= 2)
          => (/\ riv_rch_found' = 1
              /\ \A j \in ReachHits(num) :
                    \E k \in ReachHits(num) : k <= j /\ row' = df_grouped[k]
              /\ \A j \in 1..Len(df_grouped) :
                    row' = df_grouped[j] => \E k \in ReachHits(num) : k <= j)
       /\ (AtLine /\ IsXSLine(num) /\ ~IsReachLine(num) /\ rs_found = 0 /\ rs_found' = 1)
          => (/\ rs'.River = row.River
              /\ rs'.Reach = row.Reach
              /\ Contains(PyLine(num), RsString(rs')))]_vars

\* a reach line in which the text of two survey reaches occurs has been read, the
\* first of them is remembered, and the cross-section line after it has been
\* station-matched to a station of that reach
C21_Witness ==
    /\ pc = "loop"
    /\ num >= 2
    /\ IsReachLine(num - 2)
    /\ Cardinality(HitReaches(num - 2)) >= 2
    /\ IsXSLine(num - 1)
    /\ rs_found = 1
    /\ rs.Reach = row.Reach
    /\ row = df_grouped[CHOOSE k \in ReachHits(num - 2) : \A j \in ReachHits(num - 2) : k <= j]

\* the survey points encoded at a header rewrite: the point table without the anchor
EncodedPoints == SubSeq(pt_array', 2, Len(pt_array'))

\* the text of the first n strings of q
TextBefore(q, n) == Join(SubSeq(q, 1, n))

\* C22 (fixed field width): every survey point is encoded as exactly 16
\* characters, 8 for the measure and 8 for the elevation, whatever the values of
\* the survey table are, so that every encoded point starts on a multiple of 16
\* in the text of the encoded points.
C22_FixedWidth ==
    [][RewritesHeader
       => \A i \in 1..Len(EncodedPoints) :
             /\ Len(EncodedPoints[i]) = PairWidth
             /\ Len(TextBefore(EncodedPoints, i - 1)) = PairWidth * (i - 1)]_vars

\* C22 on survey tables whose values all fit 8 characters
C22_WhenNarrow ==
    [][(RewritesHeader /\ NarrowPairs)
       => \A i \in 1..Len(EncodedPoints) :
             /\ Len(EncodedPoints[i]) = PairWidth
             /\ Len(TextBefore(EncodedPoints, i - 1)) = PairWidth * (i - 1)]_vars

\* the title line of the input ends in a line end
TitleTerminated == farray # <<>> /\ LineBody(farray[1]) # farray[1]

\* the text the title line is given in the output
SuffixText == "_WithSurvey"

\* the first line has been processed
TitleDone == pc \in {"loop", "closed", "IndexError"} /\ farray # <<>> /\ num >= 1

\* C23 (title line): for every document and survey table, line 0 of the output is
\* line 0 of the input with the fixed suffix appended before its line end, it is
\* written exactly once, and no other line of the output carries the suffix.
C23_TitleLine ==
    TitleDone
    => \E ol \in {OutLines} :
          /\ ol # <<>>
          /\ ol[1] = LineBody(farray[1]) \o SuffixText
          /\ \A i \in 2..Len(ol) : ol[i] # ol[1] /\ ~Contains(ol[i], SuffixText)

\* C23 on documents whose title line ends in a line end
C23_WhenTerminated ==
    (TitleDone /\ TitleTerminated)
    => \E ol \in {OutLines} :
          /\ ol # <<>>
          /\ ol[1] = LineBody(farray[1]) \o SuffixText
          /\ \A i \in 2..Len(ol) : ol[i] # ol[1] /\ ~Contains(ol[i], SuffixText)

\* C6 on documents whose title line ends in a line end
C6_WhenTerminated ==
    (df = <<>> /\ pc \in {"loop", "closed"} /\ (farray # <<>> => TitleTerminated))
    => OutLines = TitledCopy(num)

\* the step rewrites, or starts to rewrite, the header at num
AtRewrittenHeader == AtLine /\ IsHeaderLine(num) /\ sta_elev_found' = 1

\* the geometry file with every line blanked but the current one, the line after
\* it when the step rewrites a header, and the line before it when the step
\* flushes a table
MaskedFile ==
    [i \in 1..Len(farray) |->
        IF \/ i = num + 1
           \/ (AtRewrittenHeader /\ i = num + 2)
           \/ (FlushAt /\ i = num)
        THEN farray[i] ELSE "\n"]

\* C24 (single forward pass): the loop takes the lines of the document one by one
\* in increasing position, each once, and then the script ends; a step reads
\* nothing of the document but its own line, the line right after a header it
\* rewrites and the line right before a terminator it flushes at.
C24_SinglePass ==
    /\ [][/\ AtLine
             => (/\ \E e \in {[Env EXCEPT !.farray = MaskedFile]} :
                       Body(e, Locals, num) = BodyResult
                 /\ farray' = farray
                 /\ (pc' = "loop" => num' = num + 1)
                 /\ (pc' # "loop" => (pc' = "IndexError" /\ num' = num)))
          /\ (pc = "loop" /\ ~AtLine) => (pc' = "closed" /\ num' = num /\ fout' = fout)]_vars
    /\ <>Ended

\* the pass has reached the end of a document in which a header was rewritten and
\* a table flushed
C24_Witness ==
    /\ pc = "closed"
    /\ num = Len(farray)
    /\ num >= 6
    /\ pt_array # <<>>
    /\ sta_elev_found = 0

\* the header line last processed
LastHeader == Latest({h \in 0..(num - 1) : IsHeaderLine(h)})

\* the points of the survey group of the matched row rs, ascending in MEAS, each
\* as the loop encodes it
MatchedPoints ==
    LET g == SortValues(SelectSeq(df, LAMBDA q : /\ q.River = rs.River
                                                 /\ q.Reach = rs.Reach
                                                 /\ q.RiverStation = rs.RiverStation))
    IN  [i \in 1..Len(g) |-> EncodePoint(g[i])]

\* the flags are nested and the point table is the anchor and the matched points
Hierarchy ==
    /\ sta_elev_found = 1 => rs_found = 1
    /\ rs_found = 1 => riv_rch_found = 1
    /\ sta_elev_found = 1
       => (/\ LastHeader >= 0
           /\ LastHeader + 1 < Len(farray)
           /\ pt_array = <<Slice(PyLine(LastHeader + 1), 0, PairWidth)>> \o MatchedPoints)

====
